---- MODULE Spec2Model ----
(***************************************************************************)
(* A model of the persistent key/value store of src/server.py: the         *)
(* append-only data file, the in-memory index (KeyValueStore.keys), the    *)
(* two byte counters, compaction, crash recovery (_load_from_disk), the    *)
(* non-atomic range read and the TCP request handler.                      *)
(*                                                                         *)
(* Text (str) is a sequence of Unicode code points, a file is a sequence   *)
(* of bytes 0..255; encode/decode, struct.pack/unpack, str.split and       *)
(* json.dumps are computed, so offsets and lengths are the real ones.      *)
(***************************************************************************)
EXTENDS Integers, Sequences, FiniteSets, TLC

\* ------------------------------------------------------------------ bounds

\* The wall clock int(time.time()) takes the values 0..MaxClock.
MaxClock == 1
\* No append is started on a data file that already holds this many bytes.
MaxFileLen == 60

\* At most MaxPuts successive puts are made to one key.
MaxPuts == 6

\* The threads make at most MaxOps calls in all.
MaxOps == 4

\* --------------------------------------------------------- program constants

\* server.py:66 f.read(16): timestamp (8) + key_size (4) + value_size (4).
HEADER_SIZE == 16
\* server.py:19 COMPACTION_THRESHOLD = 0.5, kept as the exact ratio 1/2.
THRESHOLD_NUM == 1
THRESHOLD_DEN == 2

\* The sentinel "DELETED" of server.py:159, 187, 235.
DELETED == <<68, 69, 76, 69, 84, 69, 68>>

\* Python's None where a str is expected: no text holds the code point -1.
None == <<-1>>

\* No exception was raised.
NoExc == "none"

\* -------------------------------------------------------------------- text

Min(a, b) == IF a < b THEN a ELSE b

\* struct.pack("!Q" / "!I"): n as w big-endian bytes.
RECURSIVE Pack(_, _)
Pack(n, w) == IF w = 0 THEN <<>> ELSE Pack(n \div 256, w - 1) \o <<n % 256>>

\* struct.unpack of one big-endian unsigned field. The model checker's integers are
\* 32 bits wide: a field of 2^23 or more is read as 2^23 (the sizes and
\* timestamps the store writes are far below it, and every length beyond the
\* end of the file reads the same bytes).
RECURSIVE Unpack(_)
Unpack(bs) ==
    IF bs = <<>> THEN 0
    ELSE LET hi == Unpack(SubSeq(bs, 1, Len(bs) - 1))
         IN  IF hi >= 32768 THEN 8388608 ELSE hi * 256 + bs[Len(bs)]

\* str.encode('utf-8') for code points below 0x800 (one or two bytes each).
RECURSIVE Utf8Encode(_)
Utf8Encode(s) ==
    IF s = <<>> THEN <<>>
    ELSE (IF s[1] < 128 THEN <<s[1]>>
          ELSE <<192 + (s[1] \div 64), 128 + (s[1] % 64)>>) \o Utf8Encode(Tail(s))

\* bytes.decode('utf-8'): [ok, text]; ok is FALSE where Python raises
\* UnicodeDecodeError (a stray continuation byte, a truncated or overlong
\* two-byte form, a lead byte of a longer form).
RECURSIVE Utf8Decode(_)
Utf8Decode(bs) ==
    IF bs = <<>> THEN [ok |-> TRUE, text |-> <<>>]
    ELSE IF bs[1] < 128
         THEN LET r == Utf8Decode(Tail(bs))
              IN  [ok |-> r.ok, text |-> <<bs[1]>> \o r.text]
    ELSE IF bs[1] >= 194 /\ bs[1] < 224 /\ Len(bs) >= 2 /\ bs[2] >= 128 /\ bs[2] < 192
         THEN LET r == Utf8Decode(Tail(Tail(bs)))
              IN  [ok |-> r.ok, text |-> <<(bs[1] - 192) * 64 + (bs[2] - 128)>> \o r.text]
    ELSE [ok |-> FALSE, text |-> <<>>]

\* Python's str comparison a <= b: lexicographic on code points.
RECURSIVE StrLe(_, _)
StrLe(a, b) ==
    IF a = <<>> THEN TRUE
    ELSE IF b = <<>> THEN FALSE
    ELSE IF a[1] # b[1] THEN a[1] < b[1]
    ELSE StrLe(Tail(a), Tail(b))

\* file.seek(pos); file.read(n): a short read at the end of the file.
FileRead(content, pos, n) == SubSeq(content, pos + 1, Min(pos + n, Len(content)))

\* One log entry as put/delete/batch_put write it: header, key, value.
Record(ts, key, value) ==
    LET kb == Utf8Encode(key)
        vb == Utf8Encode(value)
    IN  Pack(ts, 8) \o Pack(Len(kb), 4) \o Pack(Len(vb), 4) \o kb \o vb

\* ------------------------------------------------------------------- state

VARIABLES
    keys,          \* self.keys: the OrderedDict, as entries [key, pos, size, ts] in insertion order
    data_size,     \* self.data_size
    deleted_size,  \* self.deleted_size
    disk,          \* the file system's inodes: inode number -> bytes
    dataIno,       \* the inode the path store.dat names, 0 when the file does not exist
    now,           \* the wall clock, int(time.time())
    up,            \* TRUE when KeyValueStore() was constructed, FALSE when _load_from_disk raised
    serving,       \* TRUE while serve_forever runs
    call,          \* the last engine call: [op, ...arguments]
    ret,           \* what the last engine call returned or raised
    request,       \* the data of the last request the handler received, None if the last call was direct
    response,      \* the bytes the handler sent back for it
    rr,            \* the thread inside read_key_range
    lww,           \* the last write of each key: None (never written), Gone (deleted) or the value put
    lock,          \* self.lock: 0 when free, else the thread that holds it
    thr,           \* the threads that call put, delete, read and batch_put: where each is in its call
    hist           \* the calls in the order in which they acquired self.lock, with what they returned

vars == <<keys, data_size, deleted_size, disk, dataIno, now, up, serving, call, ret, request, response, rr, lww, lock, thr, hist>>

\* The engine's fields and the file system, as one value the operations map.
Store == [keys |-> keys, data_size |-> data_size, deleted_size |-> deleted_size, disk |-> disk, dataIno |-> dataIno]

\* The bytes of store.dat.
Content(s) == s.disk[s.dataIno]

\* An inode number no file uses.
FreshIno(d) == CHOOSE n \in 1..(Cardinality(DOMAIN d) + 1) : n \notin DOMAIN d

\* ------------------------------------------------------------------- index

\* The place of key in the OrderedDict, 0 when absent.
IndexOf(idx, key) == IF \E i \in 1..Len(idx) : idx[i].key = key THEN CHOOSE i \in 1..Len(idx) : idx[i].key = key ELSE 0

\* key in self.keys
HasKey(idx, key) == IndexOf(idx, key) # 0

\* self.keys[key]
Entry(idx, key) == idx[IndexOf(idx, key)]

\* self.keys[key] = (pos, size, ts): a present key keeps its place, a new one goes last.
SetKey(idx, key, pos, size, ts) ==
    LET e == [key |-> key, pos |-> pos, size |-> size, ts |-> ts]
    IN  IF HasKey(idx, key) THEN [idx EXCEPT ![IndexOf(idx, key)] = e] ELSE Append(idx, e)

\* ---------------------------------------------------------------- recovery

\* A replay in which the first record of a key wins.
LoadInstallFirst(idx, key, pos, size, ts) == IF HasKey(idx, key) THEN idx ELSE SetKey(idx, key, pos, size, ts)

\* self.keys[key] = (pos, entry_size, timestamp) of the replay: the later record of a key wins.
LoadInstall(idx, key, pos, size, ts) == SetKey(idx, key, pos, size, ts)

\* The loop of _load_from_disk from offset pos: [exc, keys, data_size, deleted_size].
\* A header of 1..15 bytes makes struct.unpack raise; a short key or value
\* read is taken as it comes, with the declared sizes.
RECURSIVE LoadLoop(_, _, _, _, _)
LoadLoop(content, pos, idx, dsize, gsize) ==
    LET header == FileRead(content, pos, HEADER_SIZE)
    IN  IF header = <<>> THEN [exc |-> NoExc, keys |-> idx, data_size |-> dsize, deleted_size |-> gsize]
        ELSE IF Len(header) < HEADER_SIZE THEN [exc |-> "struct.error", keys |-> idx, data_size |-> dsize, deleted_size |-> gsize]
        ELSE LET timestamp  == Unpack(SubSeq(header, 1, 8))
                 key_size   == Unpack(SubSeq(header, 9, 12))
                 value_size == Unpack(SubSeq(header, 13, 16))
                 dec        == Utf8Decode(FileRead(content, pos + HEADER_SIZE, key_size))
                 nread      == Len(FileRead(content, pos + HEADER_SIZE, key_size + value_size))
                 entry_size == HEADER_SIZE + key_size + value_size
                 garbage    == IF HasKey(idx, dec.text) THEN gsize + Entry(idx, dec.text).size ELSE gsize
             IN  IF ~dec.ok THEN [exc |-> "UnicodeDecodeError", keys |-> idx, data_size |-> dsize, deleted_size |-> gsize]
                 ELSE LoadLoop(content, pos + HEADER_SIZE + nread, LoadInstall(idx, dec.text, pos, entry_size, timestamp), dsize + entry_size, garbage)

\* _load_from_disk: the store a restart builds from the file system.
_load_from_disk(d, ino) ==
    IF ino = 0 THEN [exc |-> NoExc, keys |-> <<>>, data_size |-> 0, deleted_size |-> 0, disk |-> d, dataIno |-> ino]
    ELSE LET r == LoadLoop(d[ino], 0, <<>>, 0, 0)
         IN  [exc |-> r.exc, keys |-> r.keys, data_size |-> r.data_size, deleted_size |-> r.deleted_size, disk |-> d, dataIno |-> ino]

\* -------------------------------------------------------------- compaction

\* A compaction loop that leaves the entries whose value is the sentinel out of
\* the new file.
RECURSIVE CompactLoopDropsTombstones(_, _, _, _)
CompactLoopDropsTombstones(old, idx, i, new) ==
    IF i > Len(idx) THEN [keys |-> idx, file |-> new]
    ELSE LET entry_data == FileRead(old, idx[i].pos, idx[i].size)
             new_pos    == Len(new)
             value      == SubSeq(entry_data, HEADER_SIZE + Len(Utf8Encode(idx[i].key)) + 1, Len(entry_data))
         IN  IF value = Utf8Encode(DELETED) THEN CompactLoopDropsTombstones(old, idx, i + 1, new)
             ELSE CompactLoopDropsTombstones(old, [idx EXCEPT ![i].pos = new_pos], i + 1, new \o entry_data)

\* A compaction loop that takes new_f.tell() after the write.
RECURSIVE CompactLoopTellAfterWrite(_, _, _, _)
CompactLoopTellAfterWrite(old, idx, i, new) ==
    IF i > Len(idx) THEN [keys |-> idx, file |-> new]
    ELSE LET entry_data == FileRead(old, idx[i].pos, idx[i].size)
             new_pos    == Len(new) + Len(entry_data)
         IN  CompactLoopTellAfterWrite(old, [idx EXCEPT ![i].pos = new_pos], i + 1, new \o entry_data)

\* The loop of _compact over self.keys.items() from entry i: each entry's bytes
\* are copied to the end of the new file and the entry is moved there.
RECURSIVE CompactLoop(_, _, _, _)
CompactLoop(old, idx, i, new) ==
    IF i > Len(idx) THEN [keys |-> idx, file |-> new]
    ELSE LET entry_data == FileRead(old, idx[i].pos, idx[i].size)
             new_pos    == Len(new)
         IN  CompactLoop(old, [idx EXCEPT ![i].pos = new_pos], i + 1, new \o entry_data)

\* A compaction that rewrites the file and leaves the index at the old offsets.
CompactKeepsOffsets(s) ==
    LET c      == CompactLoop(Content(s), s.keys, 1, <<>>)
        newIno == FreshIno(s.disk)
    IN  [keys |-> s.keys,
         data_size |-> Len(c.file),
         deleted_size |-> 0,
         disk |-> [n \in DOMAIN s.disk \cup {newIno} |-> IF n = newIno THEN c.file ELSE s.disk[n]],
         dataIno |-> newIno]

\* A compaction that does not reset deleted_size.
CompactKeepsGarbage(s) ==
    LET c      == CompactLoop(Content(s), s.keys, 1, <<>>)
        newIno == FreshIno(s.disk)
    IN  [keys |-> c.keys,
         data_size |-> Len(c.file),
         deleted_size |-> s.deleted_size,
         disk |-> [n \in DOMAIN s.disk \cup {newIno} |-> IF n = newIno THEN c.file ELSE s.disk[n]],
         dataIno |-> newIno]

\* _compact: rewrite the entries the index names into store.dat.tmp, rename it
\* over store.dat (a new inode under the old name), reset the counters.
_compact(s) ==
    LET c      == CompactLoop(Content(s), s.keys, 1, <<>>)
        newIno == FreshIno(s.disk)
    IN  [keys |-> c.keys,
         data_size |-> Len(c.file),
         deleted_size |-> 0,
         disk |-> [n \in DOMAIN s.disk \cup {newIno} |-> IF n = newIno THEN c.file ELSE s.disk[n]],
         dataIno |-> newIno]

\* A threshold test that is met at the threshold already.
NeedsCompactionAtHalf(s) == s.data_size > 0 /\ s.deleted_size * THRESHOLD_DEN >= THRESHOLD_NUM * s.data_size

\* self.data_size > 0 and self.deleted_size / self.data_size > COMPACTION_THRESHOLD
NeedsCompaction(s) == s.data_size > 0 /\ s.deleted_size * THRESHOLD_DEN > THRESHOLD_NUM * s.data_size

\* if <threshold exceeded>: self._compact()
ConsiderCompaction(s) == IF NeedsCompaction(s) THEN _compact(s) ELSE s

\* ------------------------------------------------------------------ writes

\* open(self.data_file, 'ab'): the file is created when it does not exist.
OpenAppend(s) ==
    IF s.dataIno # 0 THEN s
    ELSE LET ino == FreshIno(s.disk)
         IN  [s EXCEPT !.dataIno = ino, !.disk = [n \in DOMAIN s.disk \cup {ino} |-> IF n = ino THEN <<>> ELSE s.disk[n]]]

\* An index update that keeps the entry of a key already present.
IndexUpdateKeepsOld(s, key, pos, entry_size, timestamp) ==
    [s EXCEPT !.deleted_size = IF HasKey(s.keys, key) THEN @ + entry_size ELSE @,
              !.keys = IF HasKey(@, key) THEN @ ELSE SetKey(@, key, pos, entry_size, timestamp),
              !.data_size = @ + entry_size]

\* An index update that forgets to count the old entry as garbage.
IndexUpdateNoGarbage(s, key, pos, entry_size, timestamp) ==
    [s EXCEPT !.keys = SetKey(@, key, pos, entry_size, timestamp),
              !.data_size = @ + entry_size]

\* An index update that counts the new entry, not the old one, as garbage.
IndexUpdateCountsNew(s, key, pos, entry_size, timestamp) ==
    [s EXCEPT !.deleted_size = IF HasKey(s.keys, key) THEN @ + entry_size ELSE @,
              !.keys = SetKey(@, key, pos, entry_size, timestamp),
              !.data_size = @ + entry_size]

\* The index update after an append: the key's old entry becomes garbage,
\* the new entry is installed, data_size grows by the entry.
IndexUpdate(s, key, pos, entry_size, timestamp) ==
    [s EXCEPT !.deleted_size = IF HasKey(s.keys, key) THEN @ + Entry(s.keys, key).size ELSE @,
              !.keys = SetKey(@, key, pos, entry_size, timestamp),
              !.data_size = @ + entry_size]

\* The append of one entry at the end of the (open) file and its index update.
AppendEntry(s, key, value, timestamp) ==
    LET pos        == Len(Content(s))
        key_size   == Len(Utf8Encode(key))
        value_size == Len(Utf8Encode(value))
        entry_size == HEADER_SIZE + key_size + value_size
        written    == [s EXCEPT !.disk[s.dataIno] = @ \o Record(timestamp, key, value)]
    IN  IndexUpdate(written, key, pos, entry_size, timestamp)

\* The three writes of an append alone: header, key and value at the end of the file.
WriteEntry(s, key, value, timestamp) == [s EXCEPT !.disk[s.dataIno] = @ \o Record(timestamp, key, value)]

\* put(key, value) at clock value t.
put(s, key, value, t) == AppendEntry(OpenAppend(ConsiderCompaction(s)), key, value, t)

\* A batch loop that considers compaction before every item.
RECURSIVE BatchLoopCompactsEach(_, _, _)
BatchLoopCompactsEach(s, items, t) ==
    IF items = <<>> THEN s
    ELSE BatchLoopCompactsEach(AppendEntry(ConsiderCompaction(s), items[1][1], items[1][2], t), Tail(items), t)

\* The loop of batch_put over items.items().
RECURSIVE BatchLoop(_, _, _)
BatchLoop(s, items, t) ==
    IF items = <<>> THEN s ELSE BatchLoop(AppendEntry(s, items[1][1], items[1][2], t), Tail(items), t)

\* batch_put(items) at clock value t; items is the dict as its (key, value) pairs in order.
batch_put(s, items, t) == BatchLoop(OpenAppend(ConsiderCompaction(s)), items, t)

\* delete(key) at clock value t: [ret, store, compacted]; compacted tells whether
\* _compact ran (it prints "Starting a compaction process...").
delete(s, key, t) ==
    IF ~HasKey(s.keys, key) THEN [ret |-> FALSE, store |-> s, compacted |-> FALSE]
    ELSE LET appended == AppendEntry(OpenAppend(s), key, DELETED, t)
         IN  [ret |-> TRUE, store |-> ConsiderCompaction(appended), compacted |-> NeedsCompaction(appended)]

\* ------------------------------------------------------------------- reads

\* The value of the entry at pos in a file: seek, read and unpack the header,
\* seek past the key, read and decode the value: [exc, value].
ReadValueAt(content, pos) ==
    LET header     == FileRead(content, pos, HEADER_SIZE)
        key_size   == Unpack(SubSeq(header, 9, 12))
        value_size == Unpack(SubSeq(header, 13, 16))
        dec        == Utf8Decode(FileRead(content, pos + HEADER_SIZE + key_size, value_size))
    IN  IF Len(header) < HEADER_SIZE THEN [exc |-> "struct.error", value |-> None]
        ELSE IF ~dec.ok THEN [exc |-> "UnicodeDecodeError", value |-> None]
        ELSE [exc |-> NoExc, value |-> dec.text]

\* A read that does not look for the sentinel.
readNoSentinel(s, key) ==
    IF ~HasKey(s.keys, key) THEN [exc |-> NoExc, value |-> None]
    ELSE ReadValueAt(Content(s), Entry(s.keys, key).pos)

\* read(key): [exc, value], value None for an absent key and for the sentinel.
read(s, key) ==
    IF ~HasKey(s.keys, key) THEN [exc |-> NoExc, value |-> None]
    ELSE IF s.dataIno = 0 THEN [exc |-> "FileNotFoundError", value |-> None]
    ELSE LET r == ReadValueAt(Content(s), Entry(s.keys, key).pos)
         IN  IF r.exc = NoExc /\ r.value = DELETED THEN [exc |-> NoExc, value |-> None] ELSE r

\* -------------------------------------------------------------- range read

\* sorted(keys): ascending in Python's str order.
RECURSIVE SortKeys(_)
SortKeys(ks) ==
    IF ks = {} THEN <<>>
    ELSE LET m == CHOOSE k \in ks : \A o \in ks : StrLe(k, o)
         IN  <<m>> \o SortKeys(ks \ {m})

\* The keys of the index, as a set.
KeySet(idx) == {idx[i].key : i \in 1..Len(idx)}

\* The part of read_key_range under the lock: keys_to_read, the (key, pos, size)
\* of every key with start_key <= key <= end_key, in sorted order.
KeysToRead(s, start_key, end_key) ==
    LET sorted_keys == SortKeys({k \in KeySet(s.keys) : StrLe(start_key, k) /\ StrLe(k, end_key)})
    IN  [i \in 1..Len(sorted_keys) |-> [key |-> sorted_keys[i], pos |-> Entry(s.keys, sorted_keys[i]).pos, size |-> Entry(s.keys, sorted_keys[i]).size]]

\* One turn of the loop after the lock is released: the value at item.pos of the
\* open file is appended to the result unless it is the sentinel: [exc, result].
RangeStep(content, item, result) ==
    LET r == ReadValueAt(content, item.pos)
    IN  IF r.exc # NoExc THEN [exc |-> r.exc, result |-> result]
        ELSE IF r.value # DELETED THEN [exc |-> NoExc, result |-> Append(result, <<item.key, r.value>>)]
        ELSE [exc |-> NoExc, result |-> result]

\* The whole loop over keys_to_read on one file.
RECURSIVE RangeLoop(_, _, _)
RangeLoop(content, todo, result) ==
    IF todo = <<>> THEN [exc |-> NoExc, result |-> result]
    ELSE LET r == RangeStep(content, todo[1], result)
         IN  IF r.exc # NoExc THEN r ELSE RangeLoop(content, Tail(todo), r.result)

\* read_key_range(start_key, end_key) run with no other thread in between: [exc, result].
\* The file is opened whatever keys_to_read holds.
read_key_range(s, start_key, end_key) ==
    IF s.dataIno = 0 THEN [exc |-> "FileNotFoundError", result |-> <<>>]
    ELSE RangeLoop(Content(s), KeysToRead(s, start_key, end_key), <<>>)

\* ---------------------------------------------------------------- protocol

\* The characters str.strip() removes (the ASCII white space).
IsSpace(c) == c \in {9, 10, 11, 12, 13, 32}

\* str.strip()
RECURSIVE Strip(_)
Strip(s) ==
    IF s = <<>> THEN s
    ELSE IF IsSpace(s[1]) THEN Strip(Tail(s))
    ELSE IF IsSpace(s[Len(s)]) THEN Strip(SubSeq(s, 1, Len(s) - 1))
    ELSE s

\* str.split(' ', 1): the text before the first space and the text after it,
\* or the text alone when it holds no space.
Split1(s) ==
    IF \E i \in 1..Len(s) : s[i] = 32
    THEN LET i == CHOOSE j \in 1..Len(s) : s[j] = 32 /\ \A k \in 1..(j - 1) : s[k] # 32
         IN  <<SubSeq(s, 1, i - 1), SubSeq(s, i + 1, Len(s))>>
    ELSE <<s>>

\* The hexadecimal digit of n, lower case, as json.dumps writes it.
HexDigit(n) == IF n < 10 THEN 48 + n ELSE 87 + n

\* json.dumps of one character of a str (ensure_ascii).
JsonChar(c) ==
    IF c = 34 THEN <<92, 34>>
    ELSE IF c = 92 THEN <<92, 92>>
    ELSE IF c = 10 THEN <<92, 110>>
    ELSE IF c = 13 THEN <<92, 114>>
    ELSE IF c = 9 THEN <<92, 116>>
    ELSE IF c = 8 THEN <<92, 98>>
    ELSE IF c = 12 THEN <<92, 102>>
    ELSE IF c >= 32 /\ c < 127 THEN <<c>>
    ELSE <<92, 117, HexDigit(c \div 4096), HexDigit((c \div 256) % 16), HexDigit((c \div 16) % 16), HexDigit(c % 16)>>

\* json.dumps of a str.
RECURSIVE JsonChars(_)
JsonChars(s) == IF s = <<>> THEN <<>> ELSE JsonChar(s[1]) \o JsonChars(Tail(s))

JsonStr(s) == <<34>> \o JsonChars(s) \o <<34>>

\* json.dumps of the list of (key, value) tuples: [["k", "v"], ["k", "v"]].
RECURSIVE JsonPairs(_)
JsonPairs(ps) ==
    IF ps = <<>> THEN <<>>
    ELSE <<91>> \o JsonStr(ps[1][1]) \o <<44, 32>> \o JsonStr(ps[1][2]) \o <<93>>
         \o (IF Len(ps) > 1 THEN <<44, 32>> ELSE <<>>) \o JsonPairs(Tail(ps))

JsonDumps(ps) == <<91>> \o JsonPairs(ps) \o <<93>>

\* str(e) of the exceptions the handler catches.
ExcText(exc) ==
    CASE exc = "IndexError" -> <<108, 105, 115, 116, 32, 105, 110, 100, 101, 120, 32, 111, 117, 116, 32, 111, 102, 32, 114, 97, 110, 103, 101>>  \* list index out of range
      [] exc = "ValueError" -> <<110, 111, 116, 32, 101, 110, 111, 117, 103, 104, 32, 118, 97, 108, 117, 101, 115, 32, 116, 111, 32, 117, 110, 112, 97, 99, 107, 32, 40, 101, 120, 112, 101, 99, 116, 101, 100, 32, 50, 44, 32, 103, 111, 116, 32, 49, 41>>  \* not enough values to unpack (expected 2, got 1)
      [] exc = "FileNotFoundError" -> <<91, 69, 114, 114, 110, 111, 32, 50, 93, 32, 78, 111, 32, 115, 117, 99, 104, 32, 102, 105, 108, 101, 32, 111, 114, 32, 100, 105, 114, 101, 99, 116, 111, 114, 121, 58, 32, 39, 115, 116, 111, 114, 101, 46, 100, 97, 116, 39>>  \* [Errno 2] No such file or directory: 'store.dat'
      [] exc = "struct.error" -> <<117, 110, 112, 97, 99, 107, 32, 114, 101, 113, 117, 105, 114, 101, 115, 32, 97, 32, 98, 117, 102, 102, 101, 114, 32, 111, 102, 32, 49, 54, 32, 98, 121, 116, 101, 115>>  \* unpack requires a buffer of 16 bytes
      [] OTHER -> <<39, 117, 116, 102, 45, 56, 39, 32, 99, 111, 100, 101, 99, 32, 99, 97, 110, 39, 116, 32, 100, 101, 99, 111, 100, 101, 32, 98, 121, 116, 101, 115>>  \* 'utf-8' codec can't decode bytes

\* The verbs and the fixed texts of handle.
CMD_PUT == <<80, 85, 84>>  \* 'PUT'
CMD_READ == <<82, 69, 65, 68>>  \* 'READ'
CMD_DELETE == <<68, 69, 76, 69, 84, 69>>  \* 'DELETE'
CMD_READRANGE == <<82, 69, 65, 68, 82, 65, 78, 71, 69>>  \* 'READRANGE'
CMD_BATCHPUT == <<66, 65, 84, 67, 72, 80, 85, 84>>  \* 'BATCHPUT'
CMD_SHUTDOWN == <<83, 72, 85, 84, 68, 79, 87, 78>>  \* 'SHUTDOWN'
OK_LINE == <<79, 75, 10>>  \* 'OK\n'
OK_PREFIX == <<79, 75, 32>>  \* 'OK '
OK_NULL == <<79, 75, 32, 78, 85, 76, 76, 10>>  \* 'OK NULL\n'
ERROR_PREFIX == <<69, 82, 82, 79, 82, 32>>  \* 'ERROR '
ERROR_NOT_FOUND == <<69, 82, 82, 79, 82, 32, 75, 101, 121, 32, 110, 111, 116, 32, 102, 111, 117, 110, 100, 10>>  \* 'ERROR Key not found\n'
ERROR_INVALID == <<69, 82, 82, 79, 82, 32, 73, 110, 118, 97, 108, 105, 100, 32, 99, 111, 109, 109, 97, 110, 100, 10>>  \* 'ERROR Invalid command\n'

\* f"ERROR {e}\n"
ErrorLine(exc) == ERROR_PREFIX \o ExcText(exc) \o <<10>>

\* What handle does with the stripped request: [response, store, did, ret, shutdown].
\* did is the engine call it made (op "none" when it made none), ret what that call gave.
Answer(resp, s, did, res) == [response |-> resp, store |-> s, did |-> did, ret |-> res, shutdown |-> FALSE]

NoCall == [op |-> "none"]

Raised(exc, s, did) == Answer(ErrorLine(exc), s, did, [exc |-> exc])

handlePut(s, args, t) ==
    IF args = <<>> THEN Raised("IndexError", s, NoCall)
    ELSE LET kv == Split1(args[1])
         IN  IF Len(kv) < 2 THEN Raised("ValueError", s, NoCall)
             ELSE Answer(OK_LINE, put(s, kv[1], kv[2], t), [op |-> "put", key |-> kv[1], value |-> kv[2]], [exc |-> NoExc, value |-> TRUE, compacted |-> NeedsCompaction(s)])

handleRead(s, args) ==
    IF args = <<>> THEN Raised("IndexError", s, NoCall)
    ELSE LET r   == read(s, args[1])
             did == [op |-> "read", key |-> args[1]]
         IN  IF r.exc # NoExc THEN Raised(r.exc, s, did)
             ELSE Answer(IF r.value # None THEN OK_PREFIX \o r.value \o <<10>> ELSE OK_NULL, s, did, r)

handleDelete(s, args, t) ==
    IF args = <<>> THEN Raised("IndexError", s, NoCall)
    ELSE LET r == delete(s, args[1], t)
         IN  Answer(IF r.ret THEN OK_LINE ELSE ERROR_NOT_FOUND, r.store, [op |-> "delete", key |-> args[1]], [exc |-> NoExc, value |-> r.ret, compacted |-> r.compacted])

handleReadRange(s, args) ==
    IF args = <<>> THEN Raised("IndexError", s, NoCall)
    ELSE LET se == Split1(args[1])
         IN  IF Len(se) < 2 THEN Raised("ValueError", s, NoCall)
             ELSE LET r   == read_key_range(s, se[1], se[2])
                      did == [op |-> "read_key_range", start |-> se[1], end |-> se[2]]
                  IN  IF r.exc # NoExc THEN Raised(r.exc, s, did)
                      ELSE Answer(OK_PREFIX \o JsonDumps(r.result) \o <<10>>, s, did, [exc |-> NoExc, value |-> r.result])

\* ThreadedTCPRequestHandler.handle on the received text, at clock value t.
handle(s, received, t) ==
    LET data    == Strip(received)
        parts   == Split1(data)
        command == parts[1]
        args    == Tail(parts)
    IN  IF data = CMD_SHUTDOWN THEN [Answer(OK_LINE, s, NoCall, [exc |-> NoExc]) EXCEPT !.shutdown = TRUE]
        ELSE IF command = CMD_PUT THEN handlePut(s, args, t)
        ELSE IF command = CMD_READ THEN handleRead(s, args)
        ELSE IF command = CMD_DELETE THEN handleDelete(s, args, t)
        ELSE IF command = CMD_READRANGE THEN handleReadRange(s, args)
        ELSE IF command = CMD_BATCHPUT THEN Answer(<<>>, s, NoCall, [exc |-> NoExc])
        ELSE Answer(ERROR_INVALID, s, NoCall, [exc |-> NoExc])

\* ------------------------------------------------------------------ inputs

Ka == <<97>>     \* "a"
Kb == <<98>>     \* "b"
Vx == <<120>>    \* "x"
Vy == <<121>>    \* "y"
Ve == <<233>>    \* "e" with an acute accent: two bytes in UTF-8

Keys == {Ka, Kb}

\* The (key, value) pairs put: the sentinel is among the values.
Puts == {<<Ka, Vx>>, <<Ka, Ve>>, <<Kb, Vx>>, <<Kb, DELETED>>}

\* The dicts given to batch_put, as their items in order.
Batches == {<<>>, <<<<Kb, Vx>>, <<Ka, Ve>>>>}


\* The numbers of bytes of an entry a crash leaves in the file: a part of the
\* header, the header alone, the header and the key.
TornCuts == {7, HEADER_SIZE, HEADER_SIZE + 1}

REQ_DELETE_A == <<68, 69, 76, 69, 84, 69, 32, 97>>   \* 'DELETE a'
REQ_BATCHPUT == <<66, 65, 84, 67, 72, 80, 85, 84, 32, 49, 10, 97, 32, 120>>   \* 'BATCHPUT 1\na x'

\* The texts clients send.
Requests == {
    <<80, 85, 84, 32, 97, 32, 120>>,   \* 'PUT a x'
    <<80, 85, 84, 32, 98, 32, 233, 10>>,   \* 'PUT b e-acute\n'
    <<80, 85, 84, 32, 97>>,   \* 'PUT a'
    <<82, 69, 65, 68, 32, 97>>,   \* 'READ a'
    <<82, 69, 65, 68>>,   \* 'READ'
    REQ_DELETE_A,
    <<82, 69, 65, 68, 82, 65, 78, 71, 69, 32, 97, 32, 98>>,   \* 'READRANGE a b'
    REQ_BATCHPUT,
    <<70, 79, 79>>,   \* 'FOO'
    <<83, 72, 85, 84, 68, 79, 87, 78, 10>> }   \* 'SHUTDOWN\n'

\* A call without arguments yet: done and result are set when it returns.
NoOp == [op |-> "none", key |-> <<>>, value |-> <<>>, items |-> <<>>, done |-> FALSE, result |-> None]

\* The calls the threads make.
Op(name, key, value, items) == [NoOp EXCEPT !.op = name, !.key = key, !.value = value, !.items = items]
ThreadBatch == <<<<Ka, Ve>>, <<Kb, Vx>>>>
ThreadOps == {Op("put", Ka, Vx, <<>>), Op("put", Ka, Ve, <<>>), Op("delete", Ka, <<>>, <<>>), Op("read", Ka, <<>>, <<>>), Op("batch_put", <<>>, <<>>, ThreadBatch)}

\* ------------------------------------------------------------ the LWW model

\* The mark of a key whose last write is a delete.
Gone == <<-2>>

RECURSIVE LwwBatch(_, _)
LwwBatch(l, items) == IF items = <<>> THEN l ELSE LwwBatch([l EXCEPT ![items[1][1]] = items[1][2]], Tail(items))

\* The last-writer-wins model after the engine call did, which returned res.
LwwApply(l, did, res) ==
    IF did.op = "put" THEN [l EXCEPT ![did.key] = did.value]
    ELSE IF did.op = "batch_put" THEN LwwBatch(l, did.items)
    ELSE IF did.op = "delete" /\ res.value THEN [l EXCEPT ![did.key] = Gone]
    ELSE l

\* What a read of key k returns according to the model: None for a key never
\* written or deleted.
LwwRead(k) == IF lww[k] = Gone THEN None ELSE lww[k]

\* ----------------------------------------------------------------- actions

\* The numbers of the threads that call the engine.
Threads == {1, 2}

\* A thread outside any call.
ThreadIdle == [pc |-> "idle", op |-> NoOp, at |-> 0, pos |-> 0, todo |-> <<>>, pre |-> <<>>]

\* A new process: a new lock, no thread inside a call.
Restarted ==
    /\ lock' = 0
    /\ thr' = [t \in Threads |-> ThreadIdle]
    /\ UNCHANGED hist

RRIdle == [pc |-> "idle", start |-> <<>>, end |-> <<>>, todo |-> <<>>, ino |-> 0, result |-> <<>>, exc |-> NoExc, snap |-> <<>>]

\* The inodes that stay: the one store.dat names and the one the range reader holds open.
Collect(d, inos) == [n \in DOMAIN d \cap inos |-> d[n]]

\* The engine's fields and the file system after an operation that left store s.
Install(s, held) ==
    /\ keys' = s.keys
    /\ data_size' = s.data_size
    /\ deleted_size' = s.deleted_size
    /\ dataIno' = s.dataIno
    /\ disk' = Collect(s.disk, {s.dataIno, held})

\* os.path.getsize of store.dat, 0 when it does not exist.
FileLen == IF dataIno = 0 THEN 0 ELSE Len(disk[dataIno])

\* An append is started only below the bound on the file's length (the length
\* after the compaction that put and batch_put consider first).
Room == FileLen < MaxFileLen
RoomCompacted == ConsiderCompaction(Store).data_size < MaxFileLen

Init ==
    /\ keys = <<>>
    /\ data_size = 0
    /\ deleted_size = 0
    /\ disk = [n \in {} |-> <<>>]
    /\ dataIno = 0
    /\ now = 0
    /\ up = TRUE
    /\ serving = TRUE
    /\ call = [op |-> "init", intact |-> 0, torn |-> 0]
    /\ ret = [exc |-> NoExc]
    /\ request = None
    /\ response = None
    /\ rr = RRIdle
    /\ lww = [k \in Keys |-> None]
    /\ lock = 0
    /\ thr = [t \in Threads |-> ThreadIdle]
    /\ hist = <<>>

\* A second passes.
Tick ==
    /\ now < MaxClock
    /\ now' = now + 1
    /\ UNCHANGED <<keys, data_size, deleted_size, disk, dataIno, up, serving, call, ret, request, response, rr, lww, lock, thr, hist>>

\* A direct engine call did that leaves store s and returns res.
Direct(s, did, res) ==
    /\ Install(s, rr.ino)
    /\ call' = did
    /\ ret' = res
    /\ request' = None
    /\ response' = None
    /\ lww' = LwwApply(lww, did, res)
    /\ UNCHANGED <<now, up, serving, rr, lock, thr, hist>>

Put(k, v) ==
    /\ up /\ RoomCompacted
    /\ Direct(put(Store, k, v, now), [op |-> "put", key |-> k, value |-> v], [exc |-> NoExc, value |-> TRUE, compacted |-> NeedsCompaction(Store)])

BatchPut(items) ==
    /\ up /\ RoomCompacted
    /\ Direct(batch_put(Store, items, now), [op |-> "batch_put", items |-> items], [exc |-> NoExc, value |-> TRUE, compacted |-> NeedsCompaction(Store)])

Delete(k) ==
    /\ up /\ Room
    /\ LET r == delete(Store, k, now)
       IN  Direct(r.store, [op |-> "delete", key |-> k], [exc |-> NoExc, value |-> r.ret, compacted |-> r.compacted])

\* The process ends (all appends are complete) and is started again:
\* KeyValueStore() rebuilds the index from the data file.
Reopen ==
    LET s == _load_from_disk(Collect(disk, {dataIno}), dataIno)
    IN  /\ keys' = s.keys
        /\ data_size' = s.data_size
        /\ deleted_size' = s.deleted_size
        /\ disk' = s.disk
        /\ dataIno' = s.dataIno
        /\ up' = (s.exc = NoExc)
        /\ serving' = (s.exc = NoExc)
        /\ call' = [op |-> "init", intact |-> FileLen, torn |-> 0]
        /\ ret' = [exc |-> s.exc]
        /\ request' = None
        /\ response' = None
        /\ rr' = RRIdle
        /\ Restarted
        /\ UNCHANGED <<now, lww>>

\* The server handles one request.
Handle(received) ==
    /\ up /\ serving /\ Room /\ RoomCompacted
    /\ LET h == handle(Store, received, now)
       IN  /\ Install(h.store, rr.ino)
           /\ call' = h.did
           /\ ret' = h.ret
           /\ request' = received
           /\ response' = h.response
           /\ serving' = ~h.shutdown
           /\ lww' = LwwApply(lww, h.did, h.ret)
           /\ UNCHANGED <<now, up, rr, lock, thr, hist>>

\* read_key_range, first part: under the lock, keys_to_read is taken from the index.
\* snap keeps, for the claim about concurrent writers, what read gave for each
\* of these keys at this moment.
RangeSnapshot(start_key, end_key) ==
    /\ up /\ rr.pc = "idle"
    /\ LET todo == KeysToRead(Store, start_key, end_key)
       IN  rr' = [pc |-> "snapshot", start |-> start_key, end |-> end_key, todo |-> todo, ino |-> 0, result |-> <<>>, exc |-> NoExc,
                  snap |-> [i \in 1..Len(todo) |-> <<todo[i].key, read(Store, todo[i].key).value>>]]
    /\ UNCHANGED <<keys, data_size, deleted_size, disk, dataIno, now, up, serving, call, ret, request, response, lww, lock, thr, hist>>

\* read_key_range ends in its thread: result is returned or the exception raised.
RangeEnd(r) ==
    /\ rr' = RRIdle
    /\ call' = [op |-> "read_key_range", start |-> rr.start, end |-> rr.end, snap |-> rr.snap]
    /\ ret' = r
    /\ request' = None
    /\ response' = None
    /\ disk' = Collect(disk, {dataIno})
    /\ UNCHANGED <<keys, data_size, deleted_size, dataIno, now, up, serving, lww, lock, thr, hist>>

\* read_key_range, after the lock is released: open(self.data_file, 'rb').
RangeOpen ==
    /\ rr.pc = "snapshot"
    /\ IF dataIno = 0 THEN RangeEnd([exc |-> "FileNotFoundError", value |-> None])
       ELSE /\ rr' = [rr EXCEPT !.pc = "reading", !.ino = dataIno]
            /\ UNCHANGED <<keys, data_size, deleted_size, disk, dataIno, now, up, serving, call, ret, request, response, lww, lock, thr, hist>>

\* read_key_range: one turn of the loop over keys_to_read, on the file it opened.
RangeReadNext ==
    /\ rr.pc = "reading" /\ rr.todo # <<>>
    /\ LET r == RangeStep(disk[rr.ino], rr.todo[1], rr.result)
       IN  IF r.exc # NoExc THEN RangeEnd([exc |-> r.exc, value |-> None])
           ELSE /\ rr' = [rr EXCEPT !.todo = Tail(@), !.result = r.result]
                /\ UNCHANGED <<keys, data_size, deleted_size, disk, dataIno, now, up, serving, call, ret, request, response, lww, lock, thr, hist>>

\* read_key_range: the loop is over, the file is closed, result is returned.
RangeReturn ==
    /\ rr.pc = "reading" /\ rr.todo = <<>>
    /\ RangeEnd([exc |-> NoExc, value |-> rr.result])

\* The process is killed inside the append of put(k, v) when only the first n
\* bytes of the entry have reached the file, and is started again. A log is
\* torn once: the guard on data_size keeps a second crash off a torn log.
CrashInAppend(k, v, n) ==
    /\ up /\ Room
    /\ data_size = FileLen
    /\ n \in 1..(Len(Record(now, k, v)) - 1)
    /\ LET before == OpenAppend(ConsiderCompaction(Store))
           torn   == [before EXCEPT !.disk[before.dataIno] = @ \o SubSeq(Record(now, k, v), 1, n)]
           s      == _load_from_disk(Collect(torn.disk, {torn.dataIno}), torn.dataIno)
       IN  /\ keys' = s.keys
           /\ data_size' = s.data_size
           /\ deleted_size' = s.deleted_size
           /\ disk' = s.disk
           /\ dataIno' = s.dataIno
           /\ up' = (s.exc = NoExc)
           /\ serving' = (s.exc = NoExc)
           /\ call' = [op |-> "init", intact |-> Len(Content(before)), torn |-> n]
           /\ ret' = [exc |-> s.exc]
           /\ request' = None
           /\ response' = None
           /\ rr' = RRIdle
           /\ Restarted
           /\ UNCHANGED <<now, lww>>

\* A compaction that writes the new file in place of store.dat from the start:
\* a crash leaves what was written so far under the name store.dat.
CompactCrashInPlace(s, copied, renamed) ==
    LET c      == CompactLoop(Content(s), SubSeq(s.keys, 1, copied), 1, <<>>)
        newIno == FreshIno(s.disk)
        d      == [n \in DOMAIN s.disk \cup {newIno} |-> IF n = newIno THEN c.file ELSE s.disk[n]]
    IN  [disk |-> d, dataIno |-> newIno, tmpIno |-> 0]

\* The file system a crash inside _compact(s) leaves, when the first copied
\* entries of the index were written to store.dat.tmp and os.replace had or had
\* not been done: [disk, dataIno, tmpIno]. Before the rename store.dat is the
\* old file and store.dat.tmp is left behind; the rename puts the complete new
\* file under the name store.dat.
CompactCrashDisk(s, copied, renamed) ==
    LET c      == CompactLoop(Content(s), SubSeq(s.keys, 1, copied), 1, <<>>)
        newIno == FreshIno(s.disk)
        d      == [n \in DOMAIN s.disk \cup {newIno} |-> IF n = newIno THEN c.file ELSE s.disk[n]]
    IN  IF renamed THEN [disk |-> d, dataIno |-> newIno, tmpIno |-> 0]
        ELSE [disk |-> d, dataIno |-> s.dataIno, tmpIno |-> newIno]

\* The process is killed inside the _compact that started on store pre and is
\* started again; l is what was written last for each key when _compact started.
\* The call record keeps what read gave for each key when _compact started.
CrashInCompact(pre, l, copied, renamed) ==
    /\ up
    /\ NeedsCompaction(pre)
    /\ copied \in 0..Len(pre.keys)
    /\ renamed => copied = Len(pre.keys)
    /\ LET fs == CompactCrashDisk(pre, copied, renamed)
           s  == _load_from_disk(Collect(fs.disk, {fs.dataIno, fs.tmpIno}), fs.dataIno)
       IN  /\ keys' = s.keys
           /\ data_size' = s.data_size
           /\ deleted_size' = s.deleted_size
           /\ disk' = s.disk
           /\ dataIno' = s.dataIno
           /\ up' = (s.exc = NoExc)
           /\ serving' = (s.exc = NoExc)
           /\ call' = [op |-> "init", intact |-> Len(fs.disk[fs.dataIno]), torn |-> 0, copied |-> copied, renamed |-> renamed,
                       before |-> [k \in Keys |-> read(pre, k)]]
           /\ ret' = [exc |-> s.exc]
           /\ request' = None
           /\ response' = None
           /\ rr' = RRIdle
           /\ lww' = l
           /\ Restarted
           /\ UNCHANGED now

\* A crash inside the compaction that put and batch_put run before they append.
CrashInCompactBeforeAppend(copied, renamed) ==
    /\ RoomCompacted
    /\ CrashInCompact(Store, lww, copied, renamed)

\* A crash inside the compaction that delete(k) runs after its tombstone is appended.
CrashInCompactAfterDelete(k, copied, renamed) ==
    /\ Room
    /\ HasKey(keys, k)
    /\ CrashInCompact(AppendEntry(OpenAppend(Store), k, DELETED, now), [lww EXCEPT ![k] = Gone], copied, renamed)

\* A lock that excludes nobody.
LockIgnored == TRUE

\* with self.lock: a thread enters when no thread holds the lock.
LockFree == lock = 0

\* Thread t calls o and acquires self.lock.
Acquire(t, o) ==
    /\ up /\ Room /\ RoomCompacted
    /\ thr[t].pc = "idle"
    /\ Len(hist) < MaxOps
    /\ LockFree
    /\ lock' = t
    /\ hist' = Append(hist, o)
    /\ thr' = [thr EXCEPT ![t] = [ThreadIdle EXCEPT !.pc = "locked", !.op = o, !.at = Len(hist) + 1,
                                                     !.pre = IF o.op = "batch_put" THEN Store ELSE <<>>]]
    /\ UNCHANGED <<keys, data_size, deleted_size, disk, dataIno, now, up, serving, call, ret, request, response, rr, lww>>

\* Thread t leaves the with block: the lock is released and the call returns res.
Return(t, res) ==
    /\ lock' = 0
    /\ thr' = [thr EXCEPT ![t] = [ThreadIdle EXCEPT !.at = thr[t].at]]
    /\ hist' = [hist EXCEPT ![thr[t].at].done = TRUE, ![thr[t].at].result = res]

\* put and delete up to the end of their writes to the file: put considers
\* compaction first, delete returns False for a key that is not in the index.
ThreadAppend(t) ==
    /\ thr[t].pc = "locked"
    /\ thr[t].op.op \in {"put", "delete"}
    /\ LET o == thr[t].op
       IN  IF o.op = "delete" /\ ~HasKey(keys, o.key)
           THEN /\ Return(t, FALSE)
                /\ UNCHANGED <<keys, data_size, deleted_size, disk, dataIno, now, up, serving, call, ret, request, response, rr, lww>>
           ELSE LET s == IF o.op = "put" THEN OpenAppend(ConsiderCompaction(Store)) ELSE OpenAppend(Store)
                    v == IF o.op = "put" THEN o.value ELSE DELETED
                IN  /\ Install(WriteEntry(s, o.key, v, now), rr.ino)
                    /\ thr' = [thr EXCEPT ![t].pc = "written", ![t].pos = Len(Content(s))]
                    /\ UNCHANGED <<now, up, serving, call, ret, request, response, rr, lww, lock, hist>>

\* put and delete from the index update on: delete considers compaction, both return True.
ThreadIndex(t) ==
    /\ thr[t].pc = "written"
    /\ LET o          == thr[t].op
           v          == IF o.op = "put" THEN o.value ELSE DELETED
           entry_size == HEADER_SIZE + Len(Utf8Encode(o.key)) + Len(Utf8Encode(v))
           s          == IndexUpdate(Store, o.key, thr[t].pos, entry_size, now)
       IN  Install(IF o.op = "delete" THEN ConsiderCompaction(s) ELSE s, rr.ino)
    /\ Return(t, TRUE)
    /\ UNCHANGED <<now, up, serving, call, ret, request, response, rr, lww>>

\* read, all of it under the lock.
ThreadRead(t) ==
    /\ thr[t].pc = "locked"
    /\ thr[t].op.op = "read"
    /\ Return(t, read(Store, thr[t].op.key))
    /\ UNCHANGED <<keys, data_size, deleted_size, disk, dataIno, now, up, serving, call, ret, request, response, rr, lww>>

\* batch_put up to the loop: compaction is considered, the file is opened.
BatchOpen(t) ==
    /\ thr[t].pc = "locked"
    /\ thr[t].op.op = "batch_put"
    /\ Install(OpenAppend(ConsiderCompaction(Store)), rr.ino)
    /\ thr' = [thr EXCEPT ![t].pc = "batch", ![t].todo = thr[t].op.items]
    /\ UNCHANGED <<now, up, serving, call, ret, request, response, rr, lww, lock, hist>>

\* batch_put: one turn of the loop.
BatchItem(t) ==
    /\ thr[t].pc = "batch"
    /\ thr[t].todo # <<>>
    /\ Install(BatchLoop(Store, <<thr[t].todo[1]>>, now), rr.ino)
    /\ thr' = [thr EXCEPT ![t].todo = Tail(@)]
    /\ UNCHANGED <<now, up, serving, call, ret, request, response, rr, lww, lock, hist>>

\* batch_put: the loop is over, the file is closed, True is returned.
BatchReturn(t) ==
    /\ thr[t].pc = "batch"
    /\ thr[t].todo = <<>>
    /\ Return(t, TRUE)
    /\ UNCHANGED <<keys, data_size, deleted_size, disk, dataIno, now, up, serving, call, ret, request, response, rr, lww>>

\* put(a, v), one of the successive puts to the key a; hist keeps them.
SamePut(v) ==
    /\ up /\ RoomCompacted
    /\ Len(hist) < MaxPuts
    /\ Install(put(Store, Ka, v, now), rr.ino)
    /\ call' = [op |-> "put", key |-> Ka, value |-> v]
    /\ ret' = [exc |-> NoExc, value |-> TRUE, compacted |-> NeedsCompaction(Store)]
    /\ request' = None
    /\ response' = None
    /\ lww' = [lww EXCEPT ![Ka] = v]
    /\ hist' = Append(hist, [Op("put", Ka, v, <<>>) EXCEPT !.done = TRUE, !.result = TRUE])
    /\ UNCHANGED <<now, up, serving, rr, lock, thr>>

\* The _compact that started on store pre raises an I/O error (a write to
\* store.dat.tmp, its close, or os.replace) when the loop has moved the first
\* copied entries of the index: the error leaves through the call that ran
\* _compact, store.dat is the old file, the counters are not reset, and the
\* entries the loop has been through stay at their offsets in the new file.
\* l is what was written last for each key when _compact started. The call
\* record keeps what read gave for each key then.
FailInCompact(pre, l, copied) ==
    /\ up
    /\ NeedsCompaction(pre)
    /\ copied \in 0..Len(pre.keys)
    /\ LET c  == CompactLoop(Content(pre), SubSeq(pre.keys, 1, copied), 1, <<>>)
           fs == CompactCrashDisk(pre, copied, FALSE)
       IN  /\ keys' = c.keys \o SubSeq(pre.keys, copied + 1, Len(pre.keys))
           /\ data_size' = pre.data_size
           /\ deleted_size' = pre.deleted_size
           /\ disk' = Collect(fs.disk, {fs.dataIno, fs.tmpIno})
           /\ dataIno' = fs.dataIno
           /\ call' = [op |-> "_compact", copied |-> copied, before |-> [k \in Keys |-> read(pre, k)]]
           /\ ret' = [exc |-> "OSError"]
           /\ request' = None
           /\ response' = None
           /\ lww' = l
           /\ UNCHANGED <<now, up, serving, rr, lock, thr, hist>>

\* The compaction that put and batch_put run before they append fails.
FailInCompactBeforeAppend(copied) ==
    /\ RoomCompacted
    /\ FailInCompact(Store, lww, copied)

\* The compaction that delete(k) runs after its tombstone is appended fails.
FailInCompactAfterDelete(k, copied) ==
    /\ Room
    /\ HasKey(keys, k)
    /\ FailInCompact(AppendEntry(OpenAppend(Store), k, DELETED, now), [lww EXCEPT ![k] = Gone], copied)

\* The engine, one call at a time, with restarts. read and read_key_range
\* change nothing: what they return in a state is read(Store, k) and
\* read_key_range(Store, start, end) there.
Next ==
    \/ Tick
    \/ \E p \in Puts : Put(p[1], p[2])
    \/ \E items \in Batches : BatchPut(items)
    \/ \E k \in Keys : Delete(k)
    \/ Reopen

Spec == Init /\ [][Next]_vars

\* The server, one request at a time, with restarts.
NextServer ==
    \/ \E received \in Requests : Handle(received)
    \/ Reopen

SpecServer == Init /\ [][NextServer]_vars

\* A thread inside read_key_range while other threads write.
NextRange ==
    \/ \E p \in {<<Ka, Vx>>, <<Kb, Ve>>} : Put(p[1], p[2])
    \/ Delete(Ka)
    \/ RangeSnapshot(Ka, Kb)
    \/ RangeOpen
    \/ RangeReadNext
    \/ RangeReturn

SpecRange == Init /\ [][NextRange]_vars

\* The engine with crashes inside an append.
NextCrash ==
    \/ \E p \in Puts : Put(p[1], p[2])
    \/ \E k \in Keys : Delete(k)
    \/ \E p \in Puts, n \in TornCuts : CrashInAppend(p[1], p[2], n)
    \/ Reopen

SpecCrash == Init /\ [][NextCrash]_vars

\* The engine with crashes inside a compaction.
NextCompactCrash ==
    \/ \E p \in Puts : Put(p[1], p[2])
    \/ \E items \in Batches : BatchPut(items)
    \/ \E k \in Keys : Delete(k)
    \/ \E copied \in 0..2, renamed \in BOOLEAN : CrashInCompactBeforeAppend(copied, renamed)
    \/ \E k \in Keys, copied \in 0..2, renamed \in BOOLEAN : CrashInCompactAfterDelete(k, copied, renamed)
    \/ Reopen

SpecCompactCrash == Init /\ [][NextCompactCrash]_vars

\* Threads that call put, delete, read and batch_put at the same time.
NextThreads ==
    \E t \in Threads :
        \/ \E o \in ThreadOps : Acquire(t, o)
        \/ ThreadAppend(t)
        \/ ThreadIndex(t)
        \/ ThreadRead(t)
        \/ BatchOpen(t)
        \/ BatchItem(t)
        \/ BatchReturn(t)

SpecThreads == Init /\ [][NextThreads]_vars

\* Successive puts of values of one length to one key, with restarts.
NextSameKey ==
    \/ \E v \in {Vx, Vy} : SamePut(v)
    \/ Reopen

SpecSameKey == Init /\ [][NextSameKey]_vars

\* The engine with compactions that raise an I/O error.
NextCompactFail ==
    \/ \E p \in {<<Ka, Vx>>, <<Kb, Ve>>} : Put(p[1], p[2])
    \/ Delete(Ka)
    \/ \E copied \in 0..2 : FailInCompactBeforeAppend(copied)
    \/ \E copied \in 0..2 : FailInCompactAfterDelete(Ka, copied)

SpecCompactFail == Init /\ [][NextCompactFail]_vars

\* ------------------------------------------------------------------ claims

\* The complete entries of a log from offset pos, by the record layout:
\* [pos, size, key, value] each; a partial entry at the end is left out.
RECURSIVE LogRecords(_, _)
LogRecords(content, pos) ==
    IF pos + HEADER_SIZE > Len(content) THEN <<>>
    ELSE LET key_size   == Unpack(SubSeq(content, pos + 9, pos + 12))
             value_size == Unpack(SubSeq(content, pos + 13, pos + 16))
             size       == HEADER_SIZE + key_size + value_size
         IN  IF pos + size > Len(content) THEN <<>>
             ELSE <<[pos   |-> pos,
                     size  |-> size,
                     key   |-> Utf8Decode(SubSeq(content, pos + HEADER_SIZE + 1, pos + HEADER_SIZE + key_size)).text,
                     value |-> Utf8Decode(SubSeq(content, pos + HEADER_SIZE + key_size + 1, pos + size)).text]>>
                  \o LogRecords(content, pos + size)

\* The entries of store.dat.
Log == IF dataIno = 0 THEN <<>> ELSE LogRecords(disk[dataIno], 0)

\* The total size of the entries of rs at offsets outside the set offsets.
RECURSIVE GarbageSize(_, _)
GarbageSize(rs, offsets) ==
    IF rs = <<>> THEN 0
    ELSE (IF rs[1].pos \notin offsets THEN rs[1].size ELSE 0) + GarbageSize(Tail(rs), offsets)

\* The offsets the index names.
IndexOffsets == {keys[i].pos : i \in 1..Len(keys)}

\* What the index should hold for a log: the last entry of each key, as (key, pos, size).
LastOfEachKey(rs) ==
    {[key |-> rs[i].key, pos |-> rs[i].pos, size |-> rs[i].size] : i \in {j \in 1..Len(rs) : \A l \in (j + 1)..Len(rs) : rs[l].key # rs[j].key}}

\* What the index holds, as (key, pos, size).
IndexPlaces == {[key |-> keys[i].key, pos |-> keys[i].pos, size |-> keys[i].size] : i \in 1..Len(keys)}

\* C1 as claimed: whatever the value v, when the last write of k is put(k, v),
\* read(k) returns v.
C1_AsClaimed ==
    \A k \in Keys : lww[k] \notin {None, Gone} => read(Store, k) = [exc |-> NoExc, value |-> lww[k]]

\* C1 (amended): when the last write of k is put(k, v), through any puts, deletes,
\* batch puts, compactions and restarts, read(k) returns v if v is not the
\* sentinel text DELETED, and not-found if it is.
C1_ReadYourWrites ==
    \A k \in Keys : lww[k] \notin {None, Gone} =>
        read(Store, k) = [exc |-> NoExc, value |-> IF lww[k] = DELETED THEN None ELSE lww[k]]

\* A compaction ran in a put of b after the last write of a, and a still reads its value.
C1_Witness ==
    /\ lww[Ka] = Ve
    /\ call.op = "put" /\ call.key = Kb /\ ret.compacted
    /\ read(Store, Ka).value = Ve

\* C2: while the last write of k is a successful delete, read(k) returns
\* not-found, whatever was done to other keys and whatever compactions and
\* restarts happened since.
C2_DeleteHides ==
    \A k \in Keys : lww[k] = Gone => read(Store, k) = [exc |-> NoExc, value |-> None]

\* a was deleted, a compaction moved its tombstone to the start of the log,
\* then b was put.
C2_Witness ==
    /\ lww[Ka] = Gone
    /\ lww[Kb] = Vx
    /\ call.op = "put" /\ call.key = Kb
    /\ HasKey(keys, Ka) /\ Entry(keys, Ka).pos = 0
    /\ read(Store, Ka).value = None

\* C3: DELETE of a key that was never put or whose last write is a delete is
\* answered ERROR Key not found and leaves the file as it is.
C3_DeleteOfAbsentKey ==
    [][(Handle(REQ_DELETE_A) /\ lww[Ka] \in {None, Gone}) => (response' = ERROR_NOT_FOUND /\ disk' = disk)]_vars

\* C4 as claimed: after a restart, read gives for every key what the
\* last-writer-wins model gives, deleted keys absent.
C4_AsClaimed ==
    call.op = "init" => \A k \in Keys : read(Store, k) = [exc |-> NoExc, value |-> LwwRead(k)]

\* C4 (amended): after a restart, read gives for every key what the
\* last-writer-wins model gives, where deleted keys and keys whose last value is
\* the sentinel text DELETED are absent.
C4_RecoveryEquivalence ==
    call.op = "init" =>
        \A k \in Keys : read(Store, k) = [exc |-> NoExc, value |-> IF LwwRead(k) = DELETED THEN None ELSE LwwRead(k)]

\* The store was restarted on a log that holds garbage, a live a and a deleted b.
C4_Witness ==
    /\ call.op = "init"
    /\ deleted_size > 0
    /\ lww[Ka] = Ve
    /\ lww[Kb] = Gone

\* C5: after a crash that left a partial entry behind call.intact bytes of
\* complete entries, recovery raises nothing, the index holds the last
\* complete entry of each key and data_size is the length of the complete entries.
C5_TornTailRecovery ==
    (call.op = "init" /\ call.torn > 0) =>
        /\ ret.exc = NoExc
        /\ IndexPlaces = LastOfEachKey(LogRecords(SubSeq(disk[dataIno], 1, call.intact), 0))
        /\ data_size = call.intact

\* C6: data_size is the length of the file and deleted_size the total size of
\* the entries of the log at offsets the index does not name.
C6_CounterConsistency ==
    /\ data_size = FileLen
    /\ deleted_size = GarbageSize(Log, IndexOffsets)

\* Garbage of two keys is in the log after a restart.
C6_Witness ==
    /\ Len(keys) = 2
    /\ deleted_size > keys[1].size + keys[2].size
    /\ call.op = "init"

\* What C7 says read_key_range returns: the (k, read(k)) of the keys of the
\* index in [start_key, end_key] that read finds, in ascending order.
ExpectedRange(start_key, end_key) ==
    LET ks == SortKeys({k \in KeySet(keys) : StrLe(start_key, k) /\ StrLe(k, end_key) /\ read(Store, k).value # None})
    IN  [i \in 1..Len(ks) |-> <<ks[i], read(Store, ks[i]).value>>]

\* C7: in every state, the fresh store included, read_key_range(start, end)
\* returns the live pairs of the range in ascending key order.
C7_RangeRead ==
    \A start_key \in Keys, end_key \in Keys :
        read_key_range(Store, start_key, end_key) = [exc |-> NoExc, result |-> ExpectedRange(start_key, end_key)]

\* C8: a read_key_range that ran while other threads wrote read no stale
\* offset, and every pair it returns is a key of its snapshot with the value
\* the key had then.
C8_RangeReadConcurrent ==
    (call.op = "read_key_range" /\ ret.exc # "FileNotFoundError") =>
        /\ ret.exc = NoExc
        /\ \A i \in 1..Len(ret.value) : \E j \in 1..Len(call.snap) : call.snap[j] = ret.value[i]

\* One line that starts with OK or ERROR.
IsResponseLine(r) ==
    /\ Len(r) >= 3
    /\ r[Len(r)] = 10
    /\ \A i \in 1..(Len(r) - 1) : r[i] # 10
    /\ \/ SubSeq(r, 1, 2) = <<79, 75>>
       \/ (Len(r) >= 6 /\ SubSeq(r, 1, 5) = <<69, 82, 82, 79, 82>>)

\* C9: every request is answered with one line that starts with OK or ERROR,
\* and BATCHPUT with OK, its items stored.
C9_OneResponseLine ==
    request # None =>
        /\ IsResponseLine(response)
        /\ request = REQ_BATCHPUT => (response = OK_LINE /\ read(Store, Ka).value = Vx)

\* C10: every entry of the index names a complete entry of the log with its key.
C10_IndexValidity ==
    \A i \in 1..Len(keys) :
        \E j \in 1..Len(Log) : Log[j].pos = keys[i].pos /\ Log[j].size = keys[i].size /\ Log[j].key = keys[i].key

\* A put compacted a log of two keys, moving both entries, and then replaced
\* the entry of the first.
C10_Witness ==
    /\ Len(keys) = 2
    /\ call.op = "put"
    /\ ret.compacted
    /\ call.key = keys[1].key
    /\ keys[1].pos > keys[2].pos /\ keys[2].pos > 0

\* C11: the garbage counter never exceeds the size counter, after recovery and
\* after every put, delete, batch_put and compaction.
C11_GarbageWithinData == deleted_size <= data_size

\* After a put more than half of the log is garbage.
C11_Witness ==
    /\ call.op = "put"
    /\ deleted_size > 0
    /\ deleted_size * 2 > data_size

\* The keys of the index whose entry does not hold the sentinel.
LiveKeys(s) == {k \in KeySet(s.keys) : read(s, k).value # None}

\* C12 as claimed, of a store s that _compact just left: deleted_size is 0 and
\* the log holds one entry for each live key and none for a tombstoned key.
OneRecordPerLiveKey(s) ==
    LET rs == LogRecords(Content(s), 0)
    IN  /\ s.deleted_size = 0
        /\ {rs[i].key : i \in 1..Len(rs)} = LiveKeys(s)
        /\ Len(rs) = Cardinality(LiveKeys(s))

\* C12 (amended), of a store s that _compact just left: deleted_size is 0 and
\* the log is the entries of the index, one for each key, tombstones included,
\* in the order of the index and with nothing else in the file.
OneRecordPerIndexKey(s) ==
    LET rs == LogRecords(Content(s), 0)
    IN  /\ s.deleted_size = 0
        /\ Len(rs) = Len(s.keys)
        /\ \A i \in 1..Len(rs) : rs[i].key = s.keys[i].key /\ rs[i].pos = s.keys[i].pos /\ rs[i].size = s.keys[i].size
        /\ (rs = <<>> \/ rs[Len(rs)].pos + rs[Len(rs)].size = Len(Content(s)))
        /\ (rs = <<>> => Content(s) = <<>>)

\* C12 as claimed: right after every compaction (the one a delete ends with, and
\* the one a put or batch_put starts with when the threshold is exceeded) the
\* log holds exactly one entry per live key, tombstoned keys dropped.
C12_AsClaimed ==
    /\ (call.op = "delete" /\ ret.compacted) => OneRecordPerLiveKey(Store)
    /\ NeedsCompaction(Store) => OneRecordPerLiveKey(_compact(Store))

\* C12 (amended): right after every compaction deleted_size is 0 and the log
\* holds exactly one entry for each key of the index, the tombstone of a
\* deleted key included, and nothing else.
C12_PostCompaction ==
    /\ (call.op = "delete" /\ ret.compacted) => OneRecordPerIndexKey(Store)
    /\ NeedsCompaction(Store) => OneRecordPerIndexKey(_compact(Store))

\* A delete ended with a compaction that left the tombstone as the only entry.
C12_Witness ==
    /\ call.op = "delete"
    /\ ret.compacted
    /\ Len(Log) = 1
    /\ Log[1].value = DELETED

\* C13: in every state with a data file, compacting twice leaves the file
\* contents and the index that compacting once leaves.
C13_CompactionIdempotent ==
    dataIno # 0 =>
        LET once  == _compact(Store)
            twice == _compact(once)
        IN  /\ Content(twice) = Content(once)
            /\ twice.keys = once.keys

\* A compaction is due on a log of two keys and rewrites it.
C13_Witness ==
    /\ Len(keys) = 2
    /\ NeedsCompaction(Store)
    /\ Content(_compact(Store)) # Content(Store)

\* A compaction of store s with garbage shortens the file by deleted_size bytes.
ShrinksByGarbage(s) ==
    s.deleted_size > 0 =>
        /\ Len(Content(_compact(s))) < Len(Content(s))
        /\ Len(Content(_compact(s))) = Len(Content(s)) - s.deleted_size

\* C14: whenever deleted_size > 0, in a state between calls and in the state
\* in which delete considers compaction (its tombstone appended), the file
\* after compaction is shorter than before by exactly deleted_size bytes.
C14_Shrinkage ==
    dataIno # 0 =>
        /\ ShrinksByGarbage(Store)
        /\ \A k \in Keys : HasKey(keys, k) => ShrinksByGarbage(AppendEntry(Store, k, DELETED, now))

\* A restart found a log on which a compaction is due.
C14_Witness ==
    /\ call.op = "init"
    /\ NeedsCompaction(Store)
    /\ Len(Content(_compact(Store))) < FileLen

\* C17: at the moment an entry is appended, by put, by delete or for an item
\* of batch_put, the counters are at or below the threshold (data_size = 0 or
\* deleted_size / data_size <= 0.5): put appends to the store its check left,
\* delete to the store as it found it, batch_put item n to the store the
\* items before it left.
C17_TriggerBeforeEveryAppend ==
    (up /\ Room /\ RoomCompacted) =>
        /\ ~NeedsCompaction(ConsiderCompaction(Store))
        /\ \A k \in Keys : HasKey(keys, k) => ~NeedsCompaction(Store)
        /\ \A items \in Batches : \A n \in 1..Len(items) :
               ~NeedsCompaction(BatchLoop(OpenAppend(ConsiderCompaction(Store)), SubSeq(items, 1, n - 1), now))

\* C18: after a crash inside a compaction, before the rename (store.dat is the
\* old file) or after it (store.dat is the new file), recovery raises nothing
\* and read gives for every key what it gave when the compaction started.
C18_CompactionCrashSafety ==
    (call.op = "init" /\ "before" \in DOMAIN call) =>
        /\ ret.exc = NoExc
        /\ \A k \in Keys : read(Store, k) = call.before[k]

\* The crash came before the rename, when one of the two entries was in
\* store.dat.tmp: the old file with its garbage was recovered.
C18_Witness ==
    /\ call.op = "init"
    /\ "before" \in DOMAIN call
    /\ ~call.renamed
    /\ call.copied = 1
    /\ Len(keys) = 2
    /\ deleted_size > 0
    /\ read(Store, Ka).value = Ve

\* C20: when a store that came up on a log with a torn entry (data_size is
\* not the file's length: no compaction rewrote the log since) has made further
\* puts or deletes and is restarted, the second recovery raises nothing and read
\* gives for every key its last complete write, those appended after the torn
\* entry included (a deleted key and a key put with the sentinel are absent).
C20_AppendsAfterTornTail ==
    [][(up /\ data_size # FileLen /\ call.op \in {"put", "delete"} /\ Reopen) =>
          /\ ret'.exc = NoExc
          /\ \A k \in Keys : read(Store, k)' = [exc |-> NoExc, value |-> IF LwwRead(k) = DELETED THEN None ELSE LwwRead(k)]]_vars

\* The last write of each key after call o, by the calls' order alone.
HistApply(l, o) ==
    IF o.op = "put" THEN [l EXCEPT ![o.key] = o.value]
    ELSE IF o.op = "batch_put" THEN LwwBatch(l, o.items)
    ELSE IF o.op = "delete" /\ o.done /\ o.result THEN [l EXCEPT ![o.key] = Gone]
    ELSE l

\* The last write of each key after the first n calls of h.
RECURSIVE HistModel(_, _)
HistModel(h, n) == IF n = 0 THEN [k \in Keys |-> None] ELSE HistApply(HistModel(h, n - 1), h[n])

\* What read returns for a key whose last write is v.
Observed(v) == [exc |-> NoExc, value |-> IF v = Gone THEN None ELSE v]

\* The values of the pairs of items with key k, in order.
RECURSIVE ValuesOf(_, _)
ValuesOf(items, k) ==
    IF items = <<>> THEN <<>>
    ELSE (IF items[1][1] = k THEN <<items[1][2]>> ELSE <<>>) \o ValuesOf(Tail(items), k)

\* The values the calls of h wrote for key k (the sentinel for a delete), in order.
RECURSIVE WritesOf(_, _)
WritesOf(h, k) ==
    IF h = <<>> THEN <<>>
    ELSE (IF h[1].op = "put" /\ h[1].key = k THEN <<h[1].value>>
          ELSE IF h[1].op = "delete" /\ h[1].key = k /\ h[1].done /\ h[1].result THEN <<DELETED>>
          ELSE IF h[1].op = "batch_put" THEN ValuesOf(h[1].items, k)
          ELSE <<>>) \o WritesOf(Tail(h), k)

\* The values of the entries of rs with key k, in order.
RECURSIVE RecordValuesOf(_, _)
RecordValuesOf(rs, k) ==
    IF rs = <<>> THEN <<>>
    ELSE (IF rs[1].key = k THEN <<rs[1].value>> ELSE <<>>) \o RecordValuesOf(Tail(rs), k)

IsSuffix(s, w) == Len(s) <= Len(w) /\ s = SubSeq(w, Len(w) - Len(s) + 1, Len(w))

\* C15: the calls of the threads take effect in the order in which they
\* acquired the lock: every read returned the value of the last put or delete
\* of its key before it in that order and, when no call is in progress, read
\* gives for each key its last write and the entries of the key in the log are
\* its last writes in that order.
C15_Linearization ==
    /\ \A i \in 1..Len(hist) :
           (hist[i].op = "read" /\ hist[i].done) => hist[i].result = Observed(HistModel(hist, i - 1)[hist[i].key])
    /\ lock = 0 =>
           \A k \in Keys :
               /\ read(Store, k) = Observed(HistModel(hist, Len(hist))[k])
               /\ IsSuffix(RecordValuesOf(Log, k), WritesOf(hist, k))

\* Thread 2 put a, then thread 1 put a, then thread 2 read a and got the value
\* thread 1 put.
C15_Witness ==
    /\ lock = 0
    /\ Len(hist) = 3
    /\ hist[1].op = "put" /\ hist[1].value = Vx
    /\ hist[2].op = "put" /\ hist[2].value = Ve
    /\ hist[3].op = "read" /\ hist[3].result.value = Ve
    /\ thr[1].at = 2
    /\ thr[2].at = 3

\* put for each pair of items in order, compaction considered before the first only.
RECURSIVE PutEach(_, _, _)
PutEach(s, items, t) ==
    IF items = <<>> THEN s
    ELSE PutEach(AppendEntry(OpenAppend(s), items[1][1], items[1][2], t), Tail(items), t)

PutSequence(s, items, t) == PutEach(ConsiderCompaction(s), items, t)

\* C19: while a thread is inside batch_put no other call has acquired the
\* lock since it did, and when its loop is over the index, the counters and the
\* file are those that the puts of its pairs, in order and with compaction
\* considered before the first only, leave from the store it started on.
C19_BatchIsPutSequence ==
    \A t \in Threads :
        thr[t].pc = "batch" =>
            /\ lock = t
            /\ thr[t].at = Len(hist)
            /\ thr[t].todo = <<>> =>
                   LET expected == PutSequence(thr[t].pre, thr[t].op.items, now)
                   IN  /\ keys = expected.keys
                       /\ data_size = expected.data_size
                       /\ deleted_size = expected.deleted_size
                       /\ Content(Store) = Content(expected)

\* A batch_put that started with a compaction has applied its two pairs,
\* while the other thread made calls before it.
C19_Witness ==
    \E t \in Threads :
        /\ thr[t].pc = "batch"
        /\ thr[t].todo = <<>>
        /\ NeedsCompaction(thr[t].pre)
        /\ \E u \in Threads \ {t} : thr[u].at > 0
        /\ Len(keys) = 2

\* The length of the entry of a put of a one-byte value to the key a.
RecordLen == Len(Record(0, Ka, Vx))

\* The number of entries in the log after n successive puts to one key: the
\* 4th put and every second put after it start with a compaction that leaves
\* one entry.
RecordsAfter(n) == IF n <= 3 THEN n ELSE 2 + (n % 2)

\* C16 as claimed: after N successive puts of values of one length to one key
\* of a fresh store and a restart, the index has 1 key and deleted_size is
\* (N - 1) * record length.
C16_AsClaimed ==
    (call.op = "init" /\ hist # <<>>) =>
        /\ Len(keys) = 1
        /\ deleted_size = (Len(hist) - 1) * RecordLen

\* C16 (amended): after N successive puts of values of one length to one key
\* of a fresh store and a restart, the index has 1 key and deleted_size is
\* (R - 1) * record length, R the number of entries the log holds: N for
\* N <= 3, and 2 or 3 (N even or odd) from N = 4 on.
C16_SameKeyPuts ==
    (call.op = "init" /\ hist # <<>>) =>
        /\ Len(keys) = 1
        /\ Len(Log) = RecordsAfter(Len(hist))
        /\ deleted_size = (RecordsAfter(Len(hist)) - 1) * RecordLen

\* A restart after 5 puts: the 4th put compacted, the log holds 3 entries.
C16_Witness ==
    /\ call.op = "init"
    /\ Len(hist) = 5
    /\ Len(keys) = 1
    /\ deleted_size = 2 * RecordLen

\* C21: after a compaction that raised an I/O error before or at the rename,
\* every entry of the index names a complete entry of store.dat with its key,
\* and read gives for every key what it gave when the compaction started.
C21_FailedCompactionConsistent ==
    call.op = "_compact" =>
        /\ \A i \in 1..Len(keys) :
               \E j \in 1..Len(Log) : Log[j].pos = keys[i].pos /\ Log[j].size = keys[i].size /\ Log[j].key = keys[i].key
        /\ \A k \in Keys : read(Store, k) = call.before[k]

====
